---- MODULE Spec2Model ----
(***************************************************************************)
(* Model of crates/rpc-client/src/icp_poller.rs: IcpPollerBuilder, the     *)
(* poll closure built by start(), the tasks it spawns, and ParamsOnce.     *)
(*                                                                         *)
(* One builder is followed from construction.  The timer host              *)
(* (ic_cdk_timers), the transport behind client.request and the owners of  *)
(* the client other than the poller are the environment.                   *)
(***************************************************************************)
EXTENDS Integers, Sequences, FiniteSets, TLC

\* ---------------------------------------------------------------- bounds
\* Ticks (invocations of the poll closure) the model follows.
MaxTicks == 3
\* Strong references to the client held outside the poller at construction.
MaxOwners == 2
\* Width of usize in the model; only the sentinel usize::MAX depends on it.
UsizeBits == 4
\* Largest finite limit a caller passes to set_limit(Some(n)).
MaxLimit == 3
\* Calls of stop() the model counts.
MaxStops == 2

UsizeMax == 2 ^ UsizeBits - 1

\* Option<T> is the empty set (None) or a singleton (Some(x)).
None == {}
Some(x) == {x}

\* The TimerId set_timer_interval hands out; start() runs at most once per
\* builder (it takes self by value), so one id is enough.
TimerIds == {"t1"}

VARIABLES
    builder,          \* "Idle": the builder value exists; "Consumed": moved into start()/into_stream()
    limit,            \* IcpPollerBuilder.limit
    timer_id,         \* IcpPollerBuilder.timer_id (Option<TimerId>)
    encodable,        \* whether serde_json::value::to_raw_value(params) succeeds for self.params
    owners,           \* strong references to the client held outside the poller
    startResult,      \* "NotCalled", "Ok" (Ok(id)) or "Err" ("Client has been dropped.")
    returnedId,       \* Option: the id start() returned
    cap_limit,        \* self.limit as captured by the poll closure
    cap_timer_id,     \* self.timer_id as captured by the poll closure
    timers,           \* timer ids the host still fires
    poll_count,       \* the Rc<RefCell<usize>> shared by all ticks
    handlerCalls,     \* invocations of response_handler
    ticks,            \* invocations of the poll closure
    timerFirings,     \* how often the host fired the interval timer
    encodeCalls,      \* calls of serde_json::value::to_raw_value
    encodeFailures,   \* "Failed to get params" reports
    transportCalls,   \* client.request calls issued
    inflight,         \* ids of the requests awaiting completion
    completed,        \* the completions processed so far, in order: [id, ok, at (ticks run by then), active (timer still registered)]
    clears,           \* calls of ic_cdk_timers::clear_timer, in order: [by, id]
    ticksAtRegistration, \* Option: ticks already run when set_timer_interval was called
    stopCalls,        \* calls of stop()
    panicked          \* the process hit panic!()

vars == <<builder, limit, timer_id, encodable, owners, startResult, returnedId,
          cap_limit, cap_timer_id, timers, poll_count, handlerCalls, ticks,
          timerFirings, encodeCalls, encodeFailures, transportCalls, inflight,
          completed, clears, ticksAtRegistration, stopCalls, panicked>>

config == <<builder, limit, timer_id, startResult, returnedId, cap_limit,
            cap_timer_id, ticksAtRegistration>>
tickVars == <<ticks, encodeCalls, encodeFailures, transportCalls, inflight>>
doneVars == <<poll_count, handlerCalls, completed>>

\* ------------------------------------------------------------ ParamsOnce
\* ParamsOnce::init: serialize the typed value; on success the value becomes
\* Serialized, on error (the `?`) it is left as it was.
ParamsOnce_init(p) ==
    IF encodable
    THEN [state |-> "Serialized", ok |-> TRUE,  encodes |-> 1]
    ELSE [state |-> p,            ok |-> FALSE, encodes |-> 1]

\* ParamsOnce::get: Typed goes through init, Serialized is returned as is.
ParamsOnce_get(p) ==
    IF p = "Typed"
    THEN ParamsOnce_init(p)
    ELSE [state |-> "Serialized", ok |-> TRUE, encodes |-> 0]

\* ------------------------------------------------------- client lifetime
\* The poll closure owns the upgraded client; the host keeps the closure for
\* as long as the timer is registered.
ClosureRefs == IF returnedId \subseteq timers /\ returnedId # None THEN 1 ELSE 0

\* Every spawned task owns a clone of the client until its request completes.
TaskRefs == Cardinality(inflight)

StrongCount == owners + ClosureRefs + TaskRefs

\* WeakClient::upgrade succeeds iff a strong reference exists.
Upgradable == StrongCount > 0

TransportAlive == StrongCount > 0

\* ------------------------------------------------------------------ Init
\* IcpPollerBuilder::new
Init ==
    /\ builder = "Idle"
    /\ limit = UsizeMax
    /\ timer_id = None
    /\ encodable \in BOOLEAN
    /\ owners \in 1..MaxOwners
    /\ startResult = "NotCalled"
    /\ returnedId = None
    /\ cap_limit = UsizeMax
    /\ cap_timer_id = None
    /\ timers = {}
    /\ poll_count = 0
    /\ handlerCalls = 0
    /\ ticks = 0
    /\ timerFirings = 0
    /\ encodeCalls = 0
    /\ encodeFailures = 0
    /\ transportCalls = 0
    /\ inflight = {}
    /\ completed = <<>>
    /\ clears = <<>>
    /\ ticksAtRegistration = None
    /\ stopCalls = 0
    /\ panicked = FALSE

\* --------------------------------------------------------------- actions
\* set_limit storing the default of usize for None (unwrap_or_default).
SetLimit_NoneIsZero(l) ==
    /\ builder = "Idle" /\ ~panicked
    /\ limit' = IF l = None THEN 0 ELSE CHOOSE n \in l : TRUE
    /\ UNCHANGED <<builder, timer_id, encodable, owners, startResult, returnedId,
                   cap_limit, cap_timer_id, timers, ticksAtRegistration, clears,
                   stopCalls, panicked, timerFirings>>
    /\ UNCHANGED tickVars /\ UNCHANGED doneVars

\* set_limit / with_limit
SetLimit(l) ==
    /\ builder = "Idle" /\ ~panicked
    /\ limit' = IF l = None THEN UsizeMax ELSE CHOOSE n \in l : TRUE
    /\ UNCHANGED <<builder, timer_id, encodable, owners, startResult, returnedId,
                   cap_limit, cap_timer_id, timers, ticksAtRegistration, clears,
                   stopCalls, panicked, timerFirings>>
    /\ UNCHANGED tickVars /\ UNCHANGED doneVars

\* An owner of the client other than the poller drops its reference.
DropOwner ==
    /\ owners > 0 /\ ~panicked
    /\ owners' = owners - 1
    /\ UNCHANGED <<timers, clears, stopCalls, panicked, timerFirings, encodable>>
    /\ UNCHANGED config /\ UNCHANGED tickVars /\ UNCHANGED doneVars

\* Poll with the `return` of the Err arm of params.get() missing.
Poll_IgnoresEncodeError ==
    LET r == ParamsOnce_get("Typed") IN
    /\ ticks' = ticks + 1
    /\ encodeCalls' = encodeCalls + r.encodes
    /\ encodeFailures' = encodeFailures + (IF r.ok THEN 0 ELSE 1)
    /\ transportCalls' = transportCalls + 1
    /\ inflight' = inflight \cup {transportCalls + 1}

\* One run of the poll closure: the spawned task runs up to its first await.
\* Every task starts from a fresh ParamsOnce::Typed(params).
Poll ==
    LET r == ParamsOnce_get("Typed") IN
    /\ ticks' = ticks + 1
    /\ encodeCalls' = encodeCalls + r.encodes
    /\ IF r.ok
       THEN /\ transportCalls' = transportCalls + 1
            /\ inflight' = inflight \cup {transportCalls + 1}
            /\ UNCHANGED encodeFailures
       ELSE /\ encodeFailures' = encodeFailures + 1
            /\ UNCHANGED <<transportCalls, inflight>>

\* start() with the initial poll placed before the upgrade check.
Start_PollsBeforeUpgrade ==
    /\ builder = "Idle" /\ ~panicked
    /\ builder' = "Consumed"
    /\ Poll
    /\ IF ~Upgradable
       THEN /\ startResult' = "Err"
            /\ UNCHANGED <<timer_id, returnedId, cap_limit, cap_timer_id, timers,
                           ticksAtRegistration>>
       ELSE /\ cap_limit' = limit
            /\ cap_timer_id' = timer_id
            /\ \E id \in TimerIds \ timers :
                 /\ timers' = timers \cup {id}
                 /\ ticksAtRegistration' = Some(ticks')
                 /\ timer_id' = Some(id)
                 /\ returnedId' = Some(id)
            /\ startResult' = "Ok"
    /\ UNCHANGED <<limit, encodable, owners, clears, stopCalls, panicked, timerFirings>>
    /\ UNCHANGED doneVars

\* start() without the initial poll: the first tick waits for the timer.
Start_NoInitialPoll ==
    /\ builder = "Idle" /\ ~panicked
    /\ builder' = "Consumed"
    /\ IF ~Upgradable
       THEN /\ startResult' = "Err"
            /\ UNCHANGED <<timer_id, returnedId, cap_limit, cap_timer_id, timers,
                           ticksAtRegistration>>
       ELSE /\ cap_limit' = limit
            /\ cap_timer_id' = timer_id
            /\ \E id \in TimerIds \ timers :
                 /\ timers' = timers \cup {id}
                 /\ ticksAtRegistration' = Some(ticks)
                 /\ timer_id' = Some(id)
                 /\ returnedId' = Some(id)
            /\ startResult' = "Ok"
    /\ UNCHANGED tickVars
    /\ UNCHANGED <<limit, encodable, owners, clears, stopCalls, panicked, timerFirings>>
    /\ UNCHANGED doneVars

\* start() handing the immediate tick's encoding failure back to its caller.
Start_PropagatesEncodeError ==
    /\ builder = "Idle" /\ ~panicked
    /\ builder' = "Consumed"
    /\ IF ~Upgradable
       THEN /\ startResult' = "Err"
            /\ UNCHANGED <<timer_id, returnedId, cap_limit, cap_timer_id, timers,
                           ticksAtRegistration>>
            /\ UNCHANGED tickVars
       ELSE /\ cap_limit' = limit
            /\ cap_timer_id' = timer_id
            /\ Poll
            /\ IF encodable
               THEN /\ \E id \in TimerIds \ timers :
                         /\ timers' = timers \cup {id}
                         /\ ticksAtRegistration' = Some(ticks')
                         /\ timer_id' = Some(id)
                         /\ returnedId' = Some(id)
                    /\ startResult' = "Ok"
               ELSE /\ startResult' = "Err"
                    /\ UNCHANGED <<timer_id, returnedId, timers, ticksAtRegistration>>
    /\ UNCHANGED <<limit, encodable, owners, clears, stopCalls, panicked, timerFirings>>
    /\ UNCHANGED doneVars

\* start(&mut self, ..): the builder stays usable after start().
Start_BorrowsBuilder ==
    /\ builder = "Idle" /\ ~panicked
    /\ UNCHANGED builder
    /\ IF ~Upgradable
       THEN /\ startResult' = "Err"
            /\ UNCHANGED <<timer_id, returnedId, cap_limit, cap_timer_id, timers,
                           ticksAtRegistration>>
            /\ UNCHANGED tickVars
       ELSE /\ cap_limit' = limit
            /\ cap_timer_id' = timer_id
            /\ Poll
            /\ \E id \in TimerIds \ timers :
                 /\ timers' = timers \cup {id}
                 /\ ticksAtRegistration' = Some(ticks')
                 /\ timer_id' = Some(id)
                 /\ returnedId' = Some(id)
            /\ startResult' = "Ok"
    /\ UNCHANGED <<limit, encodable, owners, clears, stopCalls, panicked, timerFirings>>
    /\ UNCHANGED doneVars

\* start(self, response_handler)
Start ==
    /\ builder = "Idle" /\ ~panicked
    /\ builder' = "Consumed"
    /\ IF ~Upgradable
       THEN /\ startResult' = "Err"
            /\ UNCHANGED <<timer_id, returnedId, cap_limit, cap_timer_id, timers,
                           ticksAtRegistration>>
            /\ UNCHANGED tickVars
       ELSE \* the closure captures self.limit and self.timer_id where it is built
            /\ cap_limit' = limit
            /\ cap_timer_id' = timer_id
            \* initial poll
            /\ Poll
            \* subsequent polls
            /\ \E id \in TimerIds \ timers :
                 /\ timers' = timers \cup {id}
                 /\ ticksAtRegistration' = Some(ticks')
                 /\ timer_id' = Some(id)
                 /\ returnedId' = Some(id)
            /\ startResult' = "Ok"
    /\ UNCHANGED <<limit, encodable, owners, clears, stopCalls, panicked, timerFirings>>
    /\ UNCHANGED doneVars

\* A timer firing that skips the tick while a call is outstanding.
TimerFire_SingleFlight ==
    /\ ~panicked
    /\ returnedId # None /\ returnedId \subseteq timers
    /\ ticks < MaxTicks
    /\ inflight = {}
    /\ timerFirings' = timerFirings + 1
    /\ Poll
    /\ UNCHANGED <<timers, clears, stopCalls, panicked, encodable, owners>>
    /\ UNCHANGED config /\ UNCHANGED doneVars

\* The host fires the interval timer: it runs the poll closure.
TimerFire ==
    /\ ~panicked
    /\ returnedId # None /\ returnedId \subseteq timers
    /\ ticks < MaxTicks
    /\ timerFirings' = timerFirings + 1
    /\ Poll
    /\ UNCHANGED <<timers, clears, stopCalls, panicked, encodable, owners>>
    /\ UNCHANGED config /\ UNCHANGED doneVars

\* The Ok arm invoking the handler only while the count is within the limit.
CompleteOk_SkipsHandlerPastLimit(c) ==
    /\ ~panicked
    /\ c \in inflight
    /\ inflight' = inflight \ {c}
    /\ poll_count' = (poll_count + 1) % (UsizeMax + 1)
    /\ handlerCalls' = handlerCalls + (IF poll_count' <= cap_limit THEN 1 ELSE 0)
    /\ completed' = Append(completed, [id |-> c, ok |-> TRUE, at |-> ticks,
                                      active |-> returnedId # None /\ returnedId \subseteq timers])
    /\ IF poll_count' >= cap_limit /\ cap_timer_id # None
       THEN /\ timers' = timers \ cap_timer_id
            /\ clears' = Append(clears, [by |-> "limit", id |-> cap_timer_id])
       ELSE UNCHANGED <<timers, clears>>
    /\ UNCHANGED <<ticks, encodeCalls, encodeFailures, transportCalls,
                   timerFirings, stopCalls, panicked, encodable, owners>>
    /\ UNCHANGED config

\* The Ok arm dropping a response that lands after the timer was cleared.
CompleteOk_DiscardsAfterClear(c) ==
    /\ ~panicked
    /\ c \in inflight
    /\ inflight' = inflight \ {c}
    /\ completed' = Append(completed, [id |-> c, ok |-> TRUE, at |-> ticks,
                                      active |-> returnedId # None /\ returnedId \subseteq timers])
    /\ IF returnedId \subseteq timers
       THEN /\ poll_count' = (poll_count + 1) % (UsizeMax + 1)
            /\ handlerCalls' = handlerCalls + 1
       ELSE UNCHANGED <<poll_count, handlerCalls>>
    /\ IF poll_count' >= cap_limit /\ cap_timer_id # None
       THEN /\ timers' = timers \ cap_timer_id
            /\ clears' = Append(clears, [by |-> "limit", id |-> cap_timer_id])
       ELSE UNCHANGED <<timers, clears>>
    /\ UNCHANGED <<ticks, encodeCalls, encodeFailures, transportCalls,
                   timerFirings, stopCalls, panicked, encodable, owners>>
    /\ UNCHANGED config

\* client.request(...).await returned Ok(response)
CompleteOk(c) ==
    /\ ~panicked
    /\ c \in inflight
    /\ inflight' = inflight \ {c}
    /\ poll_count' = (poll_count + 1) % (UsizeMax + 1)
    /\ handlerCalls' = handlerCalls + 1
    /\ completed' = Append(completed, [id |-> c, ok |-> TRUE, at |-> ticks,
                                      active |-> returnedId # None /\ returnedId \subseteq timers])
    /\ IF poll_count' >= cap_limit /\ cap_timer_id # None
       THEN /\ timers' = timers \ cap_timer_id
            /\ clears' = Append(clears, [by |-> "limit", id |-> cap_timer_id])
       ELSE UNCHANGED <<timers, clears>>
    /\ UNCHANGED <<ticks, encodeCalls, encodeFailures, transportCalls,
                   timerFirings, stopCalls, panicked, encodable, owners>>
    /\ UNCHANGED config

\* The Err arm counting the failed call as a poll.
CompleteErr_CountsPoll(c) ==
    /\ ~panicked
    /\ c \in inflight
    /\ inflight' = inflight \ {c}
    /\ completed' = Append(completed, [id |-> c, ok |-> FALSE, at |-> ticks,
                                      active |-> returnedId # None /\ returnedId \subseteq timers])
    /\ poll_count' = (poll_count + 1) % (UsizeMax + 1)
    /\ UNCHANGED <<handlerCalls, timers, clears>>
    /\ UNCHANGED <<ticks, encodeCalls, encodeFailures, transportCalls,
                   timerFirings, stopCalls, panicked, encodable, owners>>
    /\ UNCHANGED config

\* client.request(...).await returned Err(e): "Request failed" is printed
CompleteErr(c) ==
    /\ ~panicked
    /\ c \in inflight
    /\ inflight' = inflight \ {c}
    /\ completed' = Append(completed, [id |-> c, ok |-> FALSE, at |-> ticks,
                                      active |-> returnedId # None /\ returnedId \subseteq timers])
    /\ UNCHANGED <<poll_count, handlerCalls, timers, clears>>
    /\ UNCHANGED <<ticks, encodeCalls, encodeFailures, transportCalls,
                   timerFirings, stopCalls, panicked, encodable, owners>>
    /\ UNCHANGED config

\* stop() calling clear_timer whether or not a timer id is stored.
Stop_ClearsUnconditionally ==
    /\ builder = "Idle" /\ ~panicked
    /\ stopCalls < MaxStops
    /\ stopCalls' = stopCalls + 1
    /\ timers' = timers \ timer_id
    /\ clears' = Append(clears, [by |-> "stop", id |-> timer_id])
    /\ timer_id' = None
    /\ UNCHANGED <<builder, limit, encodable, owners, startResult, returnedId,
                   cap_limit, cap_timer_id, ticksAtRegistration, panicked,
                   timerFirings>>
    /\ UNCHANGED tickVars /\ UNCHANGED doneVars

\* stop(&mut self)
Stop ==
    /\ builder = "Idle" /\ ~panicked
    /\ stopCalls < MaxStops
    /\ stopCalls' = stopCalls + 1
    /\ IF timer_id # None
       THEN /\ timers' = timers \ timer_id
            /\ clears' = Append(clears, [by |-> "stop", id |-> timer_id])
       ELSE UNCHANGED <<timers, clears>>
    /\ timer_id' = None
    /\ UNCHANGED <<builder, limit, encodable, owners, startResult, returnedId,
                   cap_limit, cap_timer_id, ticksAtRegistration, panicked,
                   timerFirings>>
    /\ UNCHANGED tickVars /\ UNCHANGED doneVars

\* The caller of start() passes the TimerId it got to ic_cdk_timers::clear_timer.
CallerClearTimer ==
    /\ ~panicked
    /\ returnedId # None /\ returnedId \subseteq timers
    /\ timers' = timers \ returnedId
    /\ clears' = Append(clears, [by |-> "caller", id |-> returnedId])
    /\ UNCHANGED <<stopCalls, panicked, timerFirings, encodable, owners>>
    /\ UNCHANGED config /\ UNCHANGED tickVars /\ UNCHANGED doneVars

\* into_stream(self)
IntoStream ==
    /\ builder = "Idle" /\ ~panicked
    /\ builder' = "Consumed"
    /\ panicked' = TRUE
    /\ UNCHANGED stopCalls
    /\ UNCHANGED <<limit, timer_id, encodable, owners, startResult, returnedId,
                   cap_limit, cap_timer_id, timers, ticksAtRegistration, clears,
                   timerFirings>>
    /\ UNCHANGED tickVars /\ UNCHANGED doneVars

Next ==
    \/ \E l \in {None} \cup {Some(n) : n \in 1..MaxLimit} : SetLimit(l)
    \/ DropOwner
    \/ Start
    \/ TimerFire
    \/ \E c \in inflight : CompleteOk(c)
    \/ \E c \in inflight : CompleteErr(c)
    \/ Stop
    \/ CallerClearTimer
    \/ IntoStream

Spec == Init /\ [][Next]_vars

TypeOK ==
    /\ builder \in {"Idle", "Consumed"}
    /\ limit \in 0..UsizeMax
    /\ timer_id \in SUBSET TimerIds
    /\ timers \in SUBSET TimerIds
    /\ poll_count \in 0..UsizeMax
    /\ inflight \subseteq 1..MaxTicks

\* ---------------------------------------------------------------- claims
\* The host still fires the timer start() registered.
TimerActive == returnedId # None /\ returnedId \subseteq timers

\* The last completion processed, and whether a step processed a failed one.
LastCompleted == completed[Len(completed)]
FailureProcessed == Len(completed') = Len(completed) + 1 /\ ~LastCompleted'.ok

\* C1: once the number of successful completions has reached the limit, the
\* recurring timer is cancelled, so no further transport call can be issued.
C1_LimitCancelsTimer ==
    (startResult = "Ok" /\ poll_count >= cap_limit) => ~TimerActive

\* C2: the response handler is never invoked more often than the limit.
C2_HandlerAtMostLimit ==
    startResult = "Ok" => handlerCalls <= cap_limit

\* C3: the parameters are encoded at most once per poller, however many
\* ticks run.
C3_EncodeAtMostOnce == encodeCalls <= 1

\* C4: a start() that cannot upgrade the client returns the error and does
\* nothing else: no tick, no encoding, no transport call, no timer, no
\* handler invocation.
C4_StartErrHasNoEffect ==
    startResult = "Err" =>
        /\ ticks = 0 /\ encodeCalls = 0 /\ transportCalls = 0 /\ inflight = {}
        /\ timers = {} /\ timer_id = None /\ returnedId = None
        /\ handlerCalls = 0 /\ poll_count = 0 /\ clears = <<>>

\* start() was called with no strong reference to the client left.
C4_Witness == startResult = "Err" /\ owners = 0 /\ builder = "Consumed"

\* C5: while a started schedule has no completed call yet, stop() can be
\* invoked on the poller (and would clear its timer).
C5_StopAfterStart ==
    (startResult = "Ok" /\ completed = <<>>) => ENABLED Stop

\* C6: a successful start() has run exactly one tick before the timer is
\* registered (so before any firing), every firing adds exactly one tick,
\* and with encodable parameters every tick issues a transport call.
C6_FirstTickImmediate ==
    startResult = "Ok" =>
        /\ ticksAtRegistration = Some(1)
        /\ ticks = 1 + timerFirings
        /\ encodable => transportCalls = ticks

\* The immediate call and the call of the first firing have both been issued.
C6_Witness ==
    /\ startResult = "Ok" /\ encodable
    /\ timerFirings = 1 /\ transportCalls = 2 /\ inflight = {1, 2}

\* C7: when every owner other than the poller has released the client, the
\* transport is torn down.
C7_NeverExtendsLifetime == owners = 0 => ~TransportAlive

\* C8: processing a failed call leaves poll_count, the handler count and the
\* timer untouched, and nothing the next firing depends on changes.
C8_FailureIsolated ==
    [][FailureProcessed =>
          /\ poll_count' = poll_count
          /\ handlerCalls' = handlerCalls
          /\ timers' = timers /\ clears' = clears
          /\ TimerActive' = TimerActive
          /\ UNCHANGED <<cap_limit, cap_timer_id, encodable, transportCalls, ticks>>]_vars

\* A call failed, and a later firing issued a call that is now in flight.
C8_Witness ==
    \E i \in 1..Len(completed) :
        /\ ~completed[i].ok
        /\ ticks > completed[i].at
        /\ \E c \in inflight : c > completed[i].at
        /\ poll_count = 0 /\ handlerCalls = 0 /\ TimerActive

\* C9: with parameters that fail to encode, every tick reports the failure
\* and does nothing else: no transport call, no handler invocation, no
\* change of poll_count, no timer cancelled.
C9_EncodeFailureLocal ==
    [][(~encodable /\ ticks' # ticks) =>
          /\ encodeFailures' = encodeFailures + 1
          /\ transportCalls' = transportCalls /\ inflight' = inflight
          /\ handlerCalls' = handlerCalls /\ poll_count' = poll_count
          /\ timers \subseteq timers' /\ clears' = clears]_vars

\* The failure recurred on the immediate tick and on two firings.
C9_Witness ==
    /\ ~encodable /\ startResult = "Ok" /\ TimerActive
    /\ ticks = 3 /\ encodeFailures = 3 /\ transportCalls = 0

\* C10: into_stream hands back an error value; the process never panics.
C10_IntoStreamRecoverable == ~panicked

\* A step in which start() returned.
StartReturned == startResult = "NotCalled" /\ startResult' # "NotCalled"

\* C11: start() returns Err exactly when the client cannot be upgraded at
\* the call; otherwise it returns Ok with the registered timer's id, whatever
\* the immediate tick did, and no encoding or transport failure of any tick
\* removes a timer or changes what start() returned.
C11_OnlyClientUnavailablePropagates ==
    [][/\ StartReturned =>
            /\ startResult' = (IF Upgradable THEN "Ok" ELSE "Err")
            /\ startResult' = "Ok" =>
                 (returnedId' # None /\ returnedId' \subseteq timers')
       /\ (encodeFailures' # encodeFailures \/ FailureProcessed) =>
            /\ timers \subseteq timers'
            /\ clears' = clears
            /\ ~StartReturned => startResult' = startResult]_vars

\* start() returned Ok although the immediate tick failed to encode, and a
\* later tick failed again with the timer still registered.
C11_Witness ==
    /\ startResult = "Ok" /\ ~encodable /\ TimerActive
    /\ encodeFailures = 2 /\ ticks = 2 /\ timerFirings = 1

\* A step in which stop() ran, and the clear_timer calls stop() has made.
StopCalled == stopCalls' # stopCalls
StopClears == {i \in DOMAIN clears : clears[i].by = "stop"}

\* C12: a call of stop() leaves timer_id None, so a second call finds the
\* state the first one left and changes nothing; a call with no timer id
\* stored changes nothing at all; and stop() never calls clear_timer twice.
C12_StopIdempotent ==
    /\ [](Cardinality(StopClears) <= 1)
    /\ [][StopCalled =>
            /\ timer_id' = None
            /\ timer_id = None => (timers' = timers /\ clears' = clears)
            /\ UNCHANGED <<builder, limit, encodable, owners, startResult,
                           returnedId, cap_limit, cap_timer_id, poll_count,
                           handlerCalls, ticks, timerFirings, encodeCalls,
                           encodeFailures, transportCalls, inflight, completed,
                           ticksAtRegistration, panicked>>]_vars

\* stop() has been called twice in a row on the builder.
C12_Witness ==
    /\ stopCalls = 2 /\ builder = "Idle" /\ startResult = "NotCalled"
    /\ timer_id = None /\ timers = {} /\ clears = <<>>

\* The successful completions processed so far, and the clear_timer calls of
\* the limit-reached step.
Successes == {i \in DOMAIN completed : completed[i].ok}
LimitClears == {i \in DOMAIN clears : clears[i].by = "limit"}

C14_TickResolvesClientAnew ==
    [][(startResult = "Ok" /\ owners = 0 /\ ticks' # ticks) =>
          (transportCalls' = transportCalls /\ inflight' = inflight)]_vars

\* The clear_timer calls the poller itself made for the id start() returned.
PollerClears ==
    {i \in DOMAIN clears : clears[i].by \in {"limit", "stop"} /\ clears[i].id = returnedId}

\* C15: once the limit has been reached, the timer start() registered has
\* been cleared by the poller (limit-reached step or stop()) exactly once.
C15_HandleClearedExactlyOnce ==
    (startResult = "Ok" /\ poll_count >= cap_limit) => Cardinality(PollerClears) = 1

\* A step in which a successful completion was processed.
SuccessProcessed == Len(completed') = Len(completed) + 1 /\ LastCompleted'.ok

\* C16: poll_count never decreases; it changes exactly in the steps that
\* process a successful completion, there by +1 together with one handler
\* invocation; so the handler count equals poll_count in every state.
C16_PollCountCountsSuccesses ==
    /\ [](handlerCalls = poll_count)
    /\ [][/\ poll_count' >= poll_count
          /\ poll_count' # poll_count <=> SuccessProcessed
          /\ SuccessProcessed =>
               (poll_count' = poll_count + 1 /\ handlerCalls' = handlerCalls + 1)
          /\ ~SuccessProcessed => handlerCalls' = handlerCalls]_vars

\* Two successes past the limit of 1, with a failure among the completions.
C16_Witness ==
    /\ poll_count = 2 /\ handlerCalls = 2 /\ cap_limit = 1
    /\ \E i \in DOMAIN completed : ~completed[i].ok

\* C17: clearing the timer leaves the calls in flight, and a success
\* processed after the timer was cleared still increments poll_count and
\* invokes the handler.
C17_InFlightSurvivesCancel ==
    [][/\ (Len(clears') > Len(clears) /\ Len(completed') = Len(completed)) =>
            inflight' = inflight
       /\ (SuccessProcessed /\ startResult = "Ok" /\ ~TimerActive) =>
            (poll_count' = poll_count + 1 /\ handlerCalls' = handlerCalls + 1)]_vars

\* A call issued before the timer was cleared succeeded after it.
C17_Witness ==
    /\ clears # <<>> /\ ~TimerActive /\ startResult = "Ok"
    /\ \E i \in DOMAIN completed : completed[i].ok /\ ~completed[i].active
    /\ poll_count >= 1 /\ handlerCalls = poll_count

\* C18: a registered timer can fire however many calls are in flight, and
\* any call in flight, whatever its place in the order of issue, can be the
\* next to complete, with either outcome.
C18_NoSingleFlightGuard ==
    /\ (TimerActive /\ ticks < MaxTicks) => ENABLED TimerFire
    /\ \A c \in inflight : ENABLED CompleteOk(c) /\ ENABLED CompleteErr(c)

\* Two calls are in flight and a later call completed before an earlier one.
C18_Witness ==
    /\ Cardinality(inflight) >= 2
    /\ \E i \in DOMAIN completed : \E c \in inflight : c < completed[i].id

====
